---------------------------- MODULE Spec2Model ----------------------------
(***************************************************************************)
(* mdflc: a markdown file server with live reload (src/src/lib.rs).        *)
(*                                                                         *)
(* The model follows the threads and tasks of the program:                 *)
(*   - the watchexec action handler, which runs Api::file_update on each   *)
(*     batch of filesystem events (one invocation at a time),              *)
(*   - one task per live-reload websocket (handle_ws),                     *)
(*   - HTTP requests (handle_md / Api::get_md),                            *)
(*   - the axum server task with its graceful-shutdown future (signal),    *)
(*   - the main thread (run: read_console with the set path and set index  *)
(*     commands of set_path, then server_handle.await, then                *)
(*     server_closed.notify_waiters(), then return).                       *)
(*                                                                         *)
(* Strings are sequences of tokens ("/" and ".md" are tokens of their      *)
(* own), paths are sequences of components, a component is a string with   *)
(* no "/" in it.  Source texts are sequences of blocks, a rendered         *)
(* document is the sequence of the HTML elements of the blocks.            *)
(***************************************************************************)
EXTENDS Naturals, Sequences, FiniteSets, TLC

\* ------------------------------------------------------------------ bounds

\* number of live-reload connections (websocket tasks) that can exist
NListeners == 2

\* longest source text, in blocks
MaxTextLen == 2

\* most filesystem events in one batch of the watcher
MaxEvents == 2

\* ------------------------------------------------------- strings and paths

\* Option<T>: None is the empty sequence, Some(x) the one-element sequence
None == << >>
Some(x) == <<x>>

\* str::strip_prefix('/')
StripSlash(url) ==
    IF Len(url) > 0 /\ url[1] = "/" THEN Tail(url) ELSE url

\* str::strip_suffix(".md")
StripMd(url) ==
    IF Len(url) > 0 /\ url[Len(url)] = ".md"
    THEN SubSeq(url, 1, Len(url) - 1)
    ELSE url

\* a clean_url that leaves the suffix in place
clean_url_keep_suffix(url) == StripSlash(url)

\* clean_url: strip one leading '/', then one trailing ".md"
clean_url(url) == StripMd(StripSlash(url))

\* Path::strip_prefix: component-wise; None when base is no prefix of path
strip_prefix(path, base) ==
    IF Len(base) <= Len(path) /\ SubSeq(path, 1, Len(base)) = base
    THEN Some(SubSeq(path, Len(base) + 1, Len(path)))
    ELSE None

RECURSIVE to_str(_)
\* Path::to_str of a relative path: the components joined by "/"
to_str(rel) ==
    IF Len(rel) = 0 THEN << >>
    ELSE IF Len(rel) = 1 THEN rel[1]
    ELSE rel[1] \o <<"/">> \o to_str(Tail(rel))

\* the canonical base directory given on the command line: /r
RootDir == << <<"r">> >>

\* regular files that can exist under or outside the base
FileA == << <<"r">>, <<"a", ".md">> >>
FileB == << <<"r">>, <<"b", ".md">> >>
FileOut == << <<"o">>, <<"c", ".md">> >>
\* a directory under the base
DirD == << <<"r">>, <<"d">> >>

FilePaths == {FileA, FileB, FileOut}
EventPaths == FilePaths \cup {DirD}

\* another directory, the one FileOut is in: /o
NewDir == << <<"o">> >>

\* a document in a subdirectory of the base, and one whose name ends in
\* ".md.md"
FileDeep == << <<"r">>, <<"d">>, <<"e", ".md">> >>
FileTwice == << <<"r">>, <<"a", ".md", ".md">> >>

\* a regular file under the base whose name has no ".md" suffix
FileTxt == << <<"r">>, <<"n", ".txt">> >>

\* every regular file of the model
AllFiles == FilePaths \cup {FileDeep, FileTwice, FileTxt}

\* the file the --index argument names: /r/a.md
IndexFile == FileA

\* the key Api::file_update derives for a path (the body of its filter
\* closure after the is_file test); None when strip_prefix fails
update_key(path, b) ==
    LET rel == strip_prefix(path, b)
    IN IF rel = None THEN None ELSE Some(clean_url(to_str(rel[1])))

\* -------------------------------------------------------------- rendering

Blocks == {"x"}

Texts == UNION {[1..n -> Blocks] : n \in 1..MaxTextLen}

\* the HTML element pulldown_cmark writes for one block
Html(b) == <<"<p>", b, "</p>">>

\* write_html_fmt over the whole text
Render(text) == [i \in 1..Len(text) |-> Html(text[i])]

\* Template::html: before ++ s ++ after
html(s) == <<"before">> \o s \o <<"after">>

\* Template::not_found
not_found == <<"before", "<h1>Error 404: Page not found</h1>", "after">>

\* String::default(), and a String after clear()
EmptyString == << >>

\* ------------------------------------------------------------------ state

VARIABLES
    base,      \* Api.base: the canonical path served and watched
    index,     \* Api.index: the index document, a path relative to the base
    indexFrom, \* history: the canonical path Api.index was derived from
    watched,   \* the pathset of the Watchexec config
    ci,        \* where the console thread is in set_path, or None
    md,        \* Api.md: the DashMap, a function from the present keys to documents
    locked,    \* the key whose entry is held through a RefMut (Some(key)) or None
    committed, \* history: the map as it was when the last RefMut was dropped
    sockets,   \* Api.sockets
    fuPc,      \* where the watcher's action handler is in Api::file_update
    pending,   \* file_update: the paths of h.paths() the filter has not seen yet
    todo,      \* file_update: the (path, key) pairs of the HashSet not yet iterated
    cur,       \* file_update: the pair of the current iteration, or None
    text,      \* write_md_from_file: the text read, or None
    loaded,    \* file_update: the value sockets.load returned
    batch,     \* history of the current invocation of file_update
    ws,        \* the websocket tasks (handle_ws), one record per connection
    mainPc,    \* where the main thread is in run()
    serve,     \* the axum server task: "running" or "stopped"
    wxDone     \* whether the Watchexec main task (wx_handle) has finished

vars == <<base, index, indexFrom, watched, ci, md, locked, committed, sockets,
          fuPc, pending, todo, cur, text, loaded, batch, ws, mainPc, serve,
          wxDone>>

cfgVars == <<base, index, indexFrom, watched, ci>>

storeVars == <<md, locked, committed>>
fuVars == <<fuPc, pending, todo, cur, text, loaded, batch>>
runVars == <<mainPc, serve, wxDone>>

Listeners == 1..NListeners

\* a websocket task that does not exist: before the upgrade, after its end.
\* closedN, updN: the notified() future of server_closed, of update, has been
\* completed by a notify_waiters(); peerDone: the recv loop has ended; out:
\* the branch that completed the select.  The three flags are history from
\* the completion of the select on; atStop is history: the task is
\* suspended in the select and was so when the shutdown was initiated.
NoTask == [pc |-> "none", closedN |-> FALSE, updN |-> FALSE,
           peerDone |-> FALSE, out |-> "none", atStop |-> FALSE]

\* the history of an invocation of file_update: the keys of the collected
\* pairs, the keys whose entry was rewritten, the key whose file failed to
\* read, the keys left in the HashSet when the invocation returned, how many
\* times update.notify_waiters() was called, whether it has returned,
\* whether Api.sockets was above 0 at every moment of the invocation, how
\* many times each collected path was handed to write_md_from_file,
\* whether the batch carried the Interrupt signal, and the values of Api.base
\* the filter closure stripped from the paths it gave a key
NoBatch == [eligible |-> {}, applied |-> {}, failed |-> None, skipped |-> {},
            fired |-> 0, returned |-> FALSE, held |-> FALSE, reads |-> << >>,
            interrupt |-> FALSE, roots |-> {}]

\* the key initialize_md gives a regular file under a directory base: the
\* relative path with its ".md" suffix stripped, None without the suffix
init_key(path, b) ==
    LET rel == strip_prefix(path, b)
    IN IF rel = None THEN None
       ELSE LET str == to_str(rel[1])
            IN IF StripMd(str) = str THEN None ELSE Some(StripMd(str))

\* initialize_md over a base, with the regular files DOMAIN files and their
\* texts: a base that is a regular file is stored under "index"; under a
\* directory base every regular file with a key is stored under its key
initialize_md(b, files) ==
    IF b \in DOMAIN files
    THEN [k \in {<<"index">>} |-> Render(files[b])]
    ELSE LET keyed == {p \in DOMAIN files : init_key(p, b) # None}
             keys == {init_key(p, b)[1] : p \in keyed}
         IN [k \in keys |->
                 Render(files[CHOOSE p \in keyed : init_key(p, b)[1] = k])]

\* the base directory at startup: any of the files under it, with any text
StartFiles(paths, texts) ==
    UNION {[present -> texts] : present \in
              SUBSET {p \in paths \cap AllFiles : strip_prefix(p, RootDir) # None}}

\* Api::new and run() up to read_console, for the base b, the index file
\* idx and the possible contents of the filesystem at the scan
InitAt(b, idx, starts) ==
    /\ base = b
    /\ index = to_str(strip_prefix(idx, b)[1])
    /\ indexFrom = idx
    /\ watched = {b}
    /\ ci = None
    /\ \E files \in starts : md = initialize_md(b, files)
    /\ locked = None
    /\ committed = md
    /\ sockets = 0
    /\ fuPc = "idle"
    /\ pending = << >>
    /\ todo = {}
    /\ cur = None
    /\ text = None
    /\ loaded = 0
    /\ batch = NoBatch
    /\ ws = [l \in Listeners |-> NoTask]
    /\ mainPc = "console"
    /\ serve = "running"
    /\ wxDone = FALSE

\* the start with the directory /r as the base
InitOf(paths, texts) ==
    InitAt(RootDir, IndexFile, StartFiles(paths, texts))

\* ------------------------------------------------------------- Content Store

\* a get that does not wait for the writer of the entry
CanReadUnlocked(k) == TRUE

\* DashMap::get takes the read lock of the key's shard: it waits while a
\* RefMut of that key is alive
CanRead(k) == locked # Some(k)

\* Api::get_md: Some(template.html(document)) or None
get_md(url) ==
    LET k == clean_url(url)
    IN IF k \in DOMAIN md THEN Some(html(md[k])) ELSE None

\* handle_md: the status and the body of the response
handle_md(url) ==
    LET r == get_md(url)
    IN IF r # None THEN <<200, r[1]>> ELSE <<404, not_found>>

\* the keys of the model
Keys == {<<"a">>, <<"b">>, <<"c">>}

\* the request paths of the model
Urls == {<<"/", "a", ".md">>, <<"/", "b">>, <<"/", "c", ".md">>}

\* the map after an entry(key).or_default() on the key of the url
store_after_entry(url) ==
    IF clean_url(url) \in DOMAIN md THEN md
    ELSE [k \in DOMAIN md \cup {clean_url(url)} |->
             IF k = clean_url(url) THEN EmptyString ELSE md[k]]

\* the map after the DashMap::get of get_md: as before, present key or not
store_after_get(url) == md

\* a GET /:md request served while the server runs: handle_md builds the
\* response from get_md and writes nothing
HandleMd(url) ==
    /\ serve = "running"
    /\ CanRead(clean_url(url))
    /\ md' = store_after_get(url)
    /\ UNCHANGED <<cfgVars, locked, committed, sockets, fuVars, ws, runVars>>

\* ------------------------------------------------------------- file_update

Signals == {"Interrupt", "User1"}

\* a pattern that lets Interrupt through
StopSignalsNoInterrupt == {"Hangup", "ForceStop", "Quit", "Terminate"}

\* matches!(s, Hangup | ForceStop | Interrupt | Quit | Terminate)
StopSignals == {"Hangup", "ForceStop", "Interrupt", "Quit", "Terminate"}

\* the (path, key) pairs the filter closure lets through, for the paths of
\* the batch that is_file() finds to be regular files
Collect(live, b) ==
    {<<p, update_key(p, b)[1]>> : p \in {q \in live : update_key(q, b) # None}}

\* Notify::notify_one in its place: completes the future of one waiter only
notify_update_one(w) ==
    LET waiting == {l \in DOMAIN w : w[l].pc = "waiting" /\ ~w[l].updN}
    IN [l \in DOMAIN w |->
           IF waiting # {} /\ l = CHOOSE m \in waiting : \A n \in waiting : m <= n
           THEN [w[l] EXCEPT !.updN = TRUE] ELSE w[l]]

\* Notify::notify_waiters on Api.update: completes the notified() future of
\* every task that waits now; nothing is stored for later waiters
notify_update(w) ==
    [l \in DOMAIN w |->
        IF w[l].pc = "waiting" THEN [w[l] EXCEPT !.updN = TRUE] ELSE w[l]]

\* Notify::notify_waiters on Api.server_closed
notify_closed(w) ==
    [l \in DOMAIN w |->
        IF w[l].pc = "waiting" THEN [w[l] EXCEPT !.closedN = TRUE] ELSE w[l]]

\* a loop that can stop before the HashSet is exhausted
LoopDoneEarly(t) == TRUE

\* the for loop over the collected HashSet is over
LoopDone(t) == t = {}

\* the paths an event sequence names
Range(evs) == {evs[i] : i \in DOMAIN evs}

\* the paths the watcher reports events for: those under a watched path
Watchable(paths) ==
    {p \in paths : \E w \in watched : strip_prefix(p, w) # None}

\* a filter that evicts the entries of the batch's paths that are no files
store_evicting(paths, live, b) ==
    LET gone == {update_key(p, b)[1] :
                    p \in {q \in paths \ live : update_key(q, b) # None}}
    IN [k \in DOMAIN md \ gone |-> md[k]]

\* the store after the filter closure has run over the paths of a batch: as
\* before; for a path that is no regular file (a directory, a deleted file)
\* the closure returns None and nothing else
store_after_filter(paths, live, b) == md

\* the watcher calls the action handler with a batch: the stop-signal test
\* (quit_gracefully ends the Watchexec main task), then the filter over the
\* paths, collected into a HashSet.  evs: the events of the batch, each with
\* its path, several of them can name the same path; live: the paths of the
\* batch that is_file() finds to be regular files now.  The filter runs here
\* in one step, with no store to Api.base between two of its paths;
\* BeginFilter and FilterPath run it path by path
Deliver(evs, sigs, live) ==
    /\ fuPc = "idle"
    /\ ~wxDone
    /\ mainPc # "returned"
    /\ Range(evs) \subseteq Watchable(Range(evs))
    /\ live \subseteq Range(evs) \cap AllFiles
    /\ IF sigs \cap StopSignals # {}
       THEN /\ wxDone' = TRUE
            /\ batch' = [NoBatch EXCEPT !.returned = TRUE,
                                        !.interrupt = ("Interrupt" \in sigs)]
            /\ UNCHANGED <<md, fuPc, todo>>
       ELSE /\ LET set == Collect(live, base)
               IN /\ todo' = set
                  /\ batch' = [NoBatch EXCEPT
                                  !.eligible = {pr[2] : pr \in set},
                                  !.held = (sockets > 0),
                                  !.reads = [p \in {pr[1] : pr \in set} |-> 0],
                                  !.interrupt = ("Interrupt" \in sigs),
                                  !.roots = IF set = {} THEN {} ELSE {base}]
            /\ md' = store_after_filter(Range(evs), live, base)
            /\ fuPc' = "loop"
            /\ UNCHANGED wxDone
    /\ UNCHANGED <<cfgVars, locked, committed, sockets, pending, cur, text,
                   loaded, ws, mainPc, serve>>

\* the same call of the action handler with the filter closure run path by
\* path, as filter_map runs it: the stop-signal test, then the iterator
\* h.paths() is at its first path
BeginFilter(evs, sigs) ==
    /\ fuPc = "idle"
    /\ ~wxDone
    /\ mainPc # "returned"
    /\ Range(evs) \subseteq Watchable(Range(evs))
    /\ IF sigs \cap StopSignals # {}
       THEN /\ wxDone' = TRUE
            /\ batch' = [NoBatch EXCEPT !.returned = TRUE,
                                        !.interrupt = ("Interrupt" \in sigs)]
            /\ UNCHANGED <<fuPc, pending>>
       ELSE /\ pending' = evs
            /\ batch' = [NoBatch EXCEPT !.held = (sockets > 0),
                                        !.interrupt = ("Interrupt" \in sigs)]
            /\ fuPc' = IF evs = << >> THEN "loop" ELSE "filter"
            /\ UNCHANGED wxDone
    /\ UNCHANGED <<cfgVars, storeVars, sockets, todo, cur, text, loaded, ws,
                   mainPc, serve>>

\* the filter closure on the next path of h.paths(): path.is_file() (isfile),
\* then strip_prefix of the value Api.base has now, to_str and clean_url; a
\* pair goes into the HashSet, and after the last path the for loop begins
FilterPath(isfile) ==
    /\ fuPc = "filter"
    /\ LET path == Head(pending)
           key == IF isfile /\ path \in AllFiles
                  THEN update_key(path, base) ELSE None
       IN IF key = None
          THEN UNCHANGED <<todo, batch>>
          ELSE /\ todo' = todo \cup {<<path, key[1]>>}
               /\ batch' = [batch EXCEPT
                    !.eligible = @ \cup {key[1]},
                    !.reads = [p \in DOMAIN @ \cup {path} |-> 0],
                    !.roots = @ \cup {base}]
    /\ pending' = Tail(pending)
    /\ fuPc' = IF Tail(pending) = << >> THEN "loop" ELSE "filter"
    /\ UNCHANGED <<cfgVars, storeVars, sockets, cur, text, loaded, ws, runVars>>

\* one iteration begins: self.md.entry(key).or_default()
Entry(pr) ==
    /\ fuPc = "loop"
    /\ pr \in todo
    /\ locked = None
    /\ todo' = todo \ {pr}
    /\ cur' = Some(pr)
    /\ batch' = [batch EXCEPT !.reads[pr[1]] = @ + 1]
    /\ locked' = Some(pr[2])
    /\ md' = IF pr[2] \in DOMAIN md THEN md
             ELSE [k \in DOMAIN md \cup {pr[2]} |->
                      IF k = pr[2] THEN EmptyString ELSE md[k]]
    /\ fuPc' = "read"
    /\ UNCHANGED <<cfgVars, committed, sockets, pending, text, loaded, ws,
                   runVars>>

\* write_md_from_file: fs::read_to_string gives the text
ReadOk(t) ==
    /\ fuPc = "read"
    /\ text' = Some(t)
    /\ fuPc' = "clear"
    /\ UNCHANGED <<cfgVars, storeVars, sockets, pending, todo, cur, loaded, batch,
                   ws, runVars>>

\* write_md_from_file: fs::read_to_string fails; the ? operators return the
\* error from write_md_from_file and from file_update, the handle is dropped
ReadFail ==
    /\ fuPc = "read"
    /\ locked' = None
    /\ committed' = md
    /\ cur' = None
    /\ todo' = {}
    /\ batch' = [batch EXCEPT !.failed = Some(cur[1][2]),
                              !.skipped = {pr[2] : pr \in todo},
                              !.returned = TRUE]
    /\ fuPc' = "idle"
    /\ UNCHANGED <<cfgVars, md, sockets, pending, text, loaded, ws, runVars>>

\* write_md_from_file: out.reserve(additional); out.clear()
Clear ==
    /\ fuPc = "clear"
    /\ md' = [md EXCEPT ![cur[1][2]] = EmptyString]
    /\ fuPc' = "write"
    /\ UNCHANGED <<cfgVars, locked, committed, sockets, pending, todo, cur, text,
                   loaded, batch, ws, runVars>>

\* write_html_fmt pushes the next element onto the entry's String
Write ==
    /\ fuPc = "write"
    /\ Len(md[cur[1][2]]) < Len(text[1])
    /\ md' = [md EXCEPT ![cur[1][2]] =
                 Append(@, Html(text[1][Len(@) + 1]))]
    /\ UNCHANGED <<cfgVars, locked, committed, sockets, fuVars, ws, runVars>>

\* write_md_from_file returns Ok; the RefMut is dropped at the end of the
\* statement and the loop goes on
Release ==
    /\ fuPc = "write"
    /\ Len(md[cur[1][2]]) = Len(text[1])
    /\ locked' = None
    /\ committed' = md
    /\ batch' = [batch EXCEPT !.applied = @ \cup {cur[1][2]}]
    /\ cur' = None
    /\ text' = None
    /\ fuPc' = "loop"
    /\ UNCHANGED <<cfgVars, md, sockets, pending, todo, loaded, ws, runVars>>

\* after the loop: self.sockets.load(Ordering::Relaxed)
LoadSockets ==
    /\ fuPc = "loop"
    /\ LoopDone(todo)
    /\ locked = None
    /\ loaded' = sockets
    /\ fuPc' = "loaded"
    /\ UNCHANGED <<cfgVars, storeVars, sockets, pending, todo, cur, text, batch,
                   ws, runVars>>

\* if the count is not 0, self.update.notify_waiters(); then Ok(())
NotifyReturn ==
    /\ fuPc = "loaded"
    /\ IF loaded # 0
       THEN /\ ws' = notify_update(ws)
            /\ batch' = [batch EXCEPT !.fired = @ + 1, !.returned = TRUE]
       ELSE /\ ws' = ws
            /\ batch' = [batch EXCEPT !.returned = TRUE]
    /\ fuPc' = "idle"
    /\ loaded' = 0
    /\ UNCHANGED <<cfgVars, storeVars, sockets, pending, todo, cur, text, runVars>>

\* --------------------------------------------------------------- handle_ws

\* a select that polls update.notified() before the socket.recv() loop
select_update_first(t) ==
    IF t.closedN THEN "Closed"
    ELSE IF t.updN THEN "Changed"
    ELSE IF t.peerDone THEN "Peer"
    ELSE "none"

\* tokio::select! with `biased;`: the branches are polled in the order they
\* are written, and the first one that is ready completes the select:
\* server_closed.notified(), then the socket.recv() loop, then
\* update.notified()
select_biased(t) ==
    IF t.closedN THEN "Closed"
    ELSE IF t.peerDone THEN "Peer"
    ELSE IF t.updN THEN "Changed"
    ELSE "none"

\* the states of a task in which Api.sockets counts it
Counted == {"attached", "waiting", "io", "leaving"}

\* the states in which a task is suspended at an .await
Suspended == {"opened", "waiting", "io"}

\* GET /refresh-ws is upgraded and the task of the callback is spawned
Upgrade(l) ==
    /\ serve = "running"
    /\ ws[l].pc = "none"
    /\ ws' = [ws EXCEPT ![l].pc = "opened"]
    /\ UNCHANGED <<cfgVars, storeVars, sockets, fuVars, runVars>>

\* api.sockets.fetch_add(1, Ordering::Relaxed)
FetchAdd(l) ==
    /\ ws[l].pc = "opened"
    /\ sockets' = sockets + 1
    /\ ws' = [ws EXCEPT ![l].pc = "attached"]
    /\ UNCHANGED <<cfgVars, storeVars, fuVars, runVars>>

\* select! evaluates its three futures: from here on the task is a waiter
\* of server_closed and of update
StartWait(l) ==
    /\ ws[l].pc = "attached"
    /\ ws' = [ws EXCEPT ![l].pc = "waiting"]
    /\ UNCHANGED <<cfgVars, storeVars, sockets, fuVars, runVars>>

\* the peer closes the connection: socket.recv() gives None, the loop of the
\* second branch ends
PeerClose(l) ==
    /\ ws[l].pc = "waiting"
    /\ ~ws[l].peerDone
    /\ ws' = [ws EXCEPT ![l].peerDone = TRUE]
    /\ UNCHANGED <<cfgVars, storeVars, sockets, fuVars, runVars>>

\* the task is polled with at least one branch ready: the select completes
\* with the first ready branch; the peer-read branch has no .await after it
Poll(l) ==
    /\ ws[l].pc = "waiting"
    /\ select_biased(ws[l]) # "none"
    /\ ws' = [ws EXCEPT
                 ![l].pc = IF select_biased(ws[l]) = "Peer" THEN "leaving" ELSE "io",
                 ![l].out = select_biased(ws[l]),
                 ![l].atStop = FALSE]
    /\ UNCHANGED <<cfgVars, storeVars, sockets, fuVars, runVars>>

\* socket.close().await or socket.send("refresh".into()).await returns; the
\* result is discarded (let _ =)
SocketIo(l) ==
    /\ ws[l].pc = "io"
    /\ ws' = [ws EXCEPT ![l] = [NoTask EXCEPT !.pc = "leaving"]]
    /\ UNCHANGED <<cfgVars, storeVars, sockets, fuVars, runVars>>

\* api.sockets.fetch_sub(1, Ordering::Relaxed); the task ends
FetchSub(l) ==
    /\ ws[l].pc = "leaving"
    /\ sockets' = sockets - 1
    /\ ws' = [ws EXCEPT ![l] = NoTask]
    /\ batch' = [batch EXCEPT !.held = @ /\ (batch.returned \/ sockets > 1)]
    /\ UNCHANGED <<cfgVars, storeVars, fuPc, pending, todo, cur, text, loaded,
                   runVars>>

\* ------------------------------------------------------ run, signal, console

\* history: the tasks suspended in the select when signal() completes
at_shutdown(w) ==
    [l \in DOMAIN w |->
        IF w[l].pc = "waiting" THEN [w[l] EXCEPT !.atStop = TRUE] ELSE w[l]]

\* signal(): ctrl_c completes; axum's graceful shutdown ends the server task
CtrlC ==
    /\ serve = "running"
    /\ mainPc # "returned"
    /\ serve' = "stopped"
    /\ ws' = at_shutdown(ws)
    /\ UNCHANGED <<cfgVars, storeVars, sockets, fuVars, mainPc, wxDone>>

\* signal(): terminate completes
Sigterm ==
    /\ serve = "running"
    /\ mainPc # "returned"
    /\ serve' = "stopped"
    /\ ws' = at_shutdown(ws)
    /\ UNCHANGED <<cfgVars, storeVars, sockets, fuVars, mainPc, wxDone>>

\* signal(): wx_handle completes, the Watchexec main task has ended
WatcherEnded ==
    /\ serve = "running"
    /\ wxDone
    /\ serve' = "stopped"
    /\ ws' = at_shutdown(ws)
    /\ UNCHANGED <<cfgVars, storeVars, sockets, fuVars, mainPc, wxDone>>

\* read_console reads "quit" or "q": handle_ci returns true, stop.send(())
ConsoleQuit ==
    /\ mainPc = "console"
    /\ ci = None
    /\ mainPc' = "await"
    /\ UNCHANGED <<cfgVars, storeVars, sockets, fuVars, ws, serve, wxDone>>

\* signal(): console_recv completes
ConsoleRecv ==
    /\ serve = "running"
    /\ mainPc = "await"
    /\ serve' = "stopped"
    /\ ws' = at_shutdown(ws)
    /\ UNCHANGED <<cfgVars, storeVars, sockets, fuVars, mainPc, wxDone>>

\* run(): server_handle.await?? returns, api.server_closed.notify_waiters(),
\* run returns
ServerClosed ==
    /\ mainPc = "await"
    /\ serve = "stopped"
    /\ ws' = notify_closed(ws)
    /\ mainPc' = "returned"
    /\ UNCHANGED <<cfgVars, storeVars, sockets, fuVars, serve, wxDone>>

\* main returns and the tokio runtime is dropped: a task suspended at an
\* .await is dropped there and the rest of its body never runs
Cancel(l) ==
    /\ mainPc = "returned"
    /\ ws[l].pc \in Suspended
    /\ ws' = [ws EXCEPT ![l] = NoTask]
    /\ UNCHANGED <<cfgVars, storeVars, sockets, fuVars, runVars>>

\* ------------------------------------------------------------------ set_path

\* the two spellings of a command: "set path P" / "set index P", and the
\* short "sp P" / "si P"
Forms == {"set", "short"}

\* the canonical paths a "set path" command can name, and those a
\* "set index" command can name
PathArgs == {RootDir, NewDir}
IndexArgs == {FileA, FileOut}

\* the path handed to canonicalize: the text after "set path" / "set index",
\* trimmed; in the short spelling the whole line, "sp" or "si" included,
\* which names no path of the model
set_path_arg(form, path) ==
    IF form = "set" THEN Some(path) ELSE None

\* "set path": PathBuf::from(path).canonicalize()? gives the path when it
\* exists (found) and returns the error otherwise
SetPathCanon(form, path, found) ==
    /\ mainPc = "console"
    /\ ci = None
    /\ ci' = IF set_path_arg(form, path) # None /\ found
             THEN <<"exists", path, TRUE>>
             ELSE None
    /\ UNCHANGED <<base, index, indexFrom, watched, storeVars, sockets, fuVars,
                   ws, runVars>>

\* Kind::Path: path.try_exists().context("unknown path")? returns the error
\* (failed), or gives whether the path still exists; when it does not, a
\* line is printed and the arm goes on
SetPathExists(found, failed) ==
    /\ ci # None
    /\ ci[1] = "exists"
    /\ ci' = IF failed THEN None ELSE <<"pathset", ci[2], found>>
    /\ UNCHANGED <<base, index, indexFrom, watched, storeVars, sockets, fuVars,
                   ws, runVars>>

\* wx.config.pathset([path.clone()])
SetPathWatch ==
    /\ ci # None
    /\ ci[1] = "pathset"
    /\ watched' = {ci[2]}
    /\ ci' = <<"store", ci[2], ci[3]>>
    /\ UNCHANGED <<base, index, indexFrom, storeVars, sockets, fuVars, ws,
                   runVars>>

\* *api.base.unlock() = path; set_path returns Ok(true)
SetPathStore ==
    /\ ci # None
    /\ ci[1] = "store"
    /\ base' = ci[2]
    /\ ci' = None
    /\ UNCHANGED <<index, indexFrom, watched, storeVars, sockets, fuVars, ws,
                   runVars>>

\* "set index": canonicalize()?, then strip_prefix of the current base with
\* context("index must be a subpath of base")?, then the store into
\* Api.index
SetIndex(form, path, found) ==
    /\ mainPc = "console"
    /\ ci = None
    /\ IF set_path_arg(form, path) # None /\ found
          /\ strip_prefix(path, base) # None
       THEN /\ index' = to_str(strip_prefix(path, base)[1])
            /\ indexFrom' = path
       ELSE UNCHANGED <<index, indexFrom>>
    /\ UNCHANGED <<base, watched, ci, storeVars, sockets, fuVars, ws, runVars>>

\* -------------------------------------------------------- specifications

CfgNext ==
    \/ \E form \in Forms, path \in PathArgs, found \in BOOLEAN :
          SetPathCanon(form, path, found)
    \/ \E found \in BOOLEAN, failed \in BOOLEAN : SetPathExists(found, failed)
    \/ SetPathWatch
    \/ SetPathStore
    \/ \E form \in Forms, path \in IndexArgs, found \in BOOLEAN :
          SetIndex(form, path, found)


\* the watcher and file_update over the events of the given paths, the given
\* texts of a file, and batches of at most `most` events
FuNext(paths, texts, most) ==
    \/ /\ fuPc = "idle"
       /\ \E n \in 0..most, sigs \in SUBSET Signals :
             \E evs \in [1..n -> Watchable(paths)] :
                 \E live \in SUBSET (Range(evs) \cap AllFiles) :
                     Deliver(evs, sigs, live)
    \/ \E pr \in todo : Entry(pr)
    \/ \E t \in texts : ReadOk(t)
    \/ ReadFail
    \/ Clear
    \/ Write
    \/ Release
    \/ LoadSockets
    \/ NotifyReturn

HttpNext ==
    \E url \in Urls : HandleMd(url)

WsNext(ls) ==
    \E l \in ls :
        \/ Upgrade(l)
        \/ FetchAdd(l)
        \/ StartWait(l)
        \/ PeerClose(l)
        \/ Poll(l)
        \/ SocketIo(l)
        \/ FetchSub(l)

RunNext ==
    \/ CtrlC
    \/ Sigterm
    \/ WatcherEnded
    \/ ConsoleQuit
    \/ ConsoleRecv
    \/ ServerClosed
    \/ \E l \in Listeners : Cancel(l)

\* the whole program
Init == InitOf(EventPaths, Texts)

Next ==
    \/ FuNext(EventPaths, Texts, MaxEvents)
    \/ HttpNext
    \/ WsNext(Listeners)
    \/ RunNext
    \/ CfgNext

Spec == Init /\ [][Next]_vars

\* the content store and the invalidation pipeline: every batch and every
\* text, HTTP reads, one live-reload connection, no shutdown
StoreListeners == {1}

NextStore ==
    \/ FuNext(EventPaths, Texts, MaxEvents)
    \/ HttpNext
    \/ WsNext(StoreListeners)

SpecStore == Init /\ [][NextStore]_vars

\* the live-reload connections and the shutdown: every connection, batches
\* over one file with one text
WsPaths == {FileA}
WsTexts == {[i \in 1..1 |-> "x"]}

InitWs == InitOf(WsPaths, WsTexts)

NextWs ==
    \/ FuNext(WsPaths, WsTexts, 1)
    \/ WsNext(Listeners)
    \/ RunNext

SpecWs == InitWs /\ [][NextWs]_vars

\* the reconfiguration from the console: set path and set index next to
\* batches over one file of each directory, and HTTP reads
CfgPaths == {FileA, FileOut}

InitCfg == InitOf(CfgPaths, WsTexts)

NextCfg ==
    \/ FuNext(CfgPaths, WsTexts, 1)
    \/ HttpNext
    \/ CfgNext

SpecCfg == InitCfg /\ [][NextCfg]_vars

\* the key derivations: documents at the top of the base, in a subdirectory
\* and with a doubled suffix, indexed at startup, re-rendered by batches and
\* requested by their URLs
KeyPaths == {FileA, FileDeep, FileTwice}

\* the request path of a document: "/" + p + ".md" for the file base/p.md
DocUrl(path, b) ==
    <<"/">> \o StripMd(to_str(strip_prefix(path, b)[1])) \o <<".md">>

KeyUrls == {DocUrl(p, RootDir) : p \in KeyPaths}

InitKeys == InitOf(KeyPaths, WsTexts)

NextKeys ==
    \/ FuNext(KeyPaths, WsTexts, 1)
    \/ \E url \in KeyUrls : HandleMd(url)

SpecKeys == InitKeys /\ [][NextKeys]_vars

\* the startup scan next to the live updates: a document and a file that is
\* none under the directory base, every text, HTTP reads
ScanPaths == {FileA, FileTxt}

InitScan == InitOf(ScanPaths, Texts)

NextScan ==
    \/ FuNext(ScanPaths, Texts, MaxEvents)
    \/ HttpNext

SpecScan == InitScan /\ [][NextScan]_vars

\* a batch next to a set path: the filter closure path by path over batches
\* that name a document at the top of /r and one in its subdirectory /r/d,
\* while the console thread sets the base to /r/d
RacePaths == {FileA, FileDeep}
RaceArgs == {DirD}

InitRace == InitOf(RacePaths, WsTexts)

NextRace ==
    \/ /\ fuPc = "idle"
       /\ \E n \in 0..MaxEvents, sigs \in SUBSET Signals :
             \E evs \in [1..n -> Watchable(RacePaths)] : BeginFilter(evs, sigs)
    \/ \E isfile \in BOOLEAN : FilterPath(isfile)
    \/ \E pr \in todo : Entry(pr)
    \/ \E t \in WsTexts : ReadOk(t)
    \/ ReadFail
    \/ Clear
    \/ Write
    \/ Release
    \/ LoadSockets
    \/ NotifyReturn
    \/ \E form \in Forms, path \in RaceArgs, found \in BOOLEAN :
          SetPathCanon(form, path, found)
    \/ \E found \in BOOLEAN, failed \in BOOLEAN : SetPathExists(found, failed)
    \/ SetPathWatch
    \/ SetPathStore

SpecRace == InitRace /\ [][NextRace]_vars

\* single-file mode: the base is the regular file /r/a.md, which is also the
\* index; batches for it, requests for "index", one live-reload connection
FileUrls == {<<"/", "index">>, <<"/", "index", ".md">>}

InitFile == InitAt(FileA, FileA, [{FileA} -> Texts])

NextFile ==
    \/ FuNext({FileA}, Texts, MaxEvents)
    \/ \E url \in FileUrls : HandleMd(url)
    \/ WsNext(StoreListeners)

SpecFile == InitFile /\ [][NextFile]_vars

\* the steps of the program that need nothing from outside: the tokio runtime
\* polls every woken task, every thread runs, socket I/O and the read of a
\* file return, and once run() has returned the runtime drops the tasks.
\* The console input, the signals, the filesystem events, the browsers'
\* connections and disconnections are not among them.
FuStep ==
    \/ \E pr \in todo : Entry(pr)
    \/ \E t \in WsTexts : ReadOk(t)
    \/ Clear
    \/ Write
    \/ Release
    \/ LoadSockets
    \/ NotifyReturn

WsStep(l) ==
    \/ FetchAdd(l)
    \/ StartWait(l)
    \/ Poll(l)
    \/ SocketIo(l)
    \/ FetchSub(l)

RunStep ==
    \/ WatcherEnded
    \/ ConsoleRecv
    \/ ServerClosed

FairWs ==
    /\ SpecWs
    /\ WF_vars(FuStep)
    /\ WF_vars(RunStep)
    /\ \A l \in Listeners : WF_vars(WsStep(l))
    /\ \A l \in Listeners : WF_vars(Cancel(l))

\* ------------------------------------------------------------------ claims

\* what a reader of the map as of the last dropped handle gets for a url
committed_md(url) ==
    LET k == clean_url(url)
    IN IF k \in DOMAIN committed THEN Some(html(committed[k])) ELSE None

\* C1: no torn reads.  Whenever get_md can run for a url, what it returns
\* is the whole document the entry held when its last handle was dropped
\* (the previous render while a render is in progress, the new one after
\* it), never the cleared or the partly written buffer.
C1_NoTornRead ==
    \A url \in Urls :
        CanRead(clean_url(url)) => get_md(url) = committed_md(url)

\* C1 witness: a render of a key that held a document is in progress, its
\* buffer is cleared or partly written, and requests for other keys run
C1_Witness ==
    /\ fuPc = "write"
    /\ locked = Some(<<"a">>)
    /\ <<"a">> \in DOMAIN committed
    /\ committed[<<"a">>] # EmptyString
    /\ Len(md[<<"a">>]) < Len(text[1])
    /\ md[<<"a">>] # committed[<<"a">>]
    /\ CanRead(<<"b">>)

\* C2: update.notify_waiters() is called only after every pair of the batch
\* has been written: once it has been called for a batch, no pair is left,
\* no handle is held, and every key of the batch holds a whole document
\* written by this batch that a reader gets.
C2_SignalAfterBatch ==
    batch.fired > 0 =>
        /\ todo = {}
        /\ cur = None
        /\ locked = None
        /\ batch.applied = batch.eligible
        /\ \A k \in batch.eligible :
              /\ k \in DOMAIN md
              /\ md[k] \in {Render(t) : t \in Texts}
              /\ CanRead(k)
              /\ committed[k] = md[k]

\* C2 witness: the signal was fired for a batch of two files
C2_Witness ==
    /\ batch.fired = 1
    /\ batch.eligible = {<<"a">>, <<"b">>}

\* C3: a batch that applied at least one entry while ListenerCount was
\* above 0 throughout fires the ChangeSignal exactly once, also when another
\* file of the batch fails.
C3_FiredOnce ==
    (batch.returned /\ batch.applied # {} /\ batch.held) => batch.fired = 1

\* C4: a batch in which no entry was applied fires no ChangeSignal.
C4_NoSignalWithoutApply ==
    batch.fired > 0 => batch.applied # {}

\* C5: a read failure on one file does not abort the batch: when the
\* invocation has returned, every collected file but the failed one has
\* been re-rendered.
C5_BatchNotAborted ==
    batch.returned => batch.eligible \ batch.applied \subseteq
                        {k \in Keys : batch.failed = Some(k)}

\* C6: a failed re-render leaves the entry of the key as it was before: on
\* the step in which the read fails, a reader gets for that key what it got
\* before the handle was taken; an absent key stays absent.
C6_FailureLeavesEntry ==
    [][\A url \in Urls :
          (batch.failed = None /\ batch'.failed = Some(clean_url(url)))
              => get_md(url)' = committed_md(url)]_vars

\* C7 as stated: when several branches of the select are ready the outcome
\* is chosen by priority shutdown, then content change, then peer read: a
\* listener that left through the peer-read branch had no ChangeSignal
\* ready, and one that sent "refresh" had no shutdown ready.
C7_ChangeBeforePeer ==
    \A l \in Listeners :
        /\ ws[l].out = "Peer" => ~ws[l].closedN /\ ~ws[l].updN
        /\ ws[l].out = "Changed" => ~ws[l].closedN

\* C7 amended: the priority is shutdown, then peer read, then content
\* change: "refresh" is sent only when neither the shutdown nor the end of
\* the peer's stream was ready, the task ends silently through the peer-read
\* branch only when the shutdown was not ready, and a ready shutdown always
\* wins.
C7_BiasedOrder ==
    \A l \in Listeners :
        /\ ws[l].out = "Closed" => ws[l].closedN
        /\ ws[l].out = "Peer" => ws[l].peerDone /\ ~ws[l].closedN
        /\ ws[l].out = "Changed" =>
              ws[l].updN /\ ~ws[l].peerDone /\ ~ws[l].closedN

\* C7 witness: a listener whose peer-read branch and ChangeSignal were both
\* ready has completed its select through the peer-read branch
C7_Witness ==
    \E l \in Listeners :
        /\ ws[l].pc = "leaving"
        /\ ws[l].out = "Peer"
        /\ ws[l].peerDone
        /\ ws[l].updN

\* C8: after shutdown is initiated by any trigger, every listener that was
\* suspended in the select at that moment eventually leaves it; none stays
\* suspended forever.
C8_ShutdownDrains ==
    \A l \in Listeners :
        (ws[l].pc = "waiting" /\ ws[l].atStop) ~> (ws[l].pc # "waiting")

\* the step is a call of update.notify_waiters() by file_update
Fires == batch'.fired = batch.fired + 1

\* C9: one firing of the ChangeSignal completes the update future of every
\* listener that waits at that moment and of no other task; a listener that
\* starts to wait has no completed update future (nothing is stored, nothing
\* is replayed), and only a firing completes one; a woken listener with no
\* shutdown and no peer end ready completes its select with Changed.
C9_FanOut ==
    [][/\ Fires =>
            \A l \in Listeners :
                IF ws[l].pc = "waiting" THEN ws'[l].updN ELSE ws'[l] = ws[l]
       /\ \A l \in Listeners :
            /\ (ws[l].pc # "waiting" /\ ws'[l].pc = "waiting") => ~ws'[l].updN
            /\ (~ws[l].updN /\ ws'[l].updN) => Fires
            /\ (ws[l].pc = "waiting" /\ ws[l].updN /\ ~ws[l].closedN
                    /\ ~ws[l].peerDone /\ ws'[l].out # "none")
                 => ws'[l].out = "Changed"]_vars

\* C9 witness: one firing has woken every listener of the model and all of
\* them are still in the select
C9_Witness ==
    /\ batch.fired = 1
    /\ \A l \in Listeners : ws[l].pc = "waiting" /\ ws[l].updN

\* C10: the sockets counter equals the number of connections that have
\* attached and not yet detached, on every exit path of the task.
C10_CountMatches ==
    sockets = Cardinality({l \in Listeners : ws[l].pc \in Counted})

\* C11: a live-reload connection loops on the wait: when the send of
\* "refresh" after a Changed outcome has returned, the task is waiting in the
\* select again, still attached; it ends only on Closed or on the peer's
\* disconnect.
C11_LoopsOnWait ==
    [][\A l \in Listeners :
          (/\ ws[l].pc = "io"
           /\ ws[l].out = "Changed"
           /\ ws'[l] # ws[l]
           /\ mainPc # "returned")
              => ws'[l].pc = "waiting"]_vars

C13_LookupTotal ==
    /\ [](\A url \in Urls :
            CanRead(clean_url(url)) =>
                handle_md(url) =
                    IF clean_url(url) \in DOMAIN md
                    THEN <<200, <<"before">> \o md[clean_url(url)] \o <<"after">> >>
                    ELSE <<404, not_found>>)
    /\ [][/\ md' # md =>
               \/ fuPc = "loop" /\ fuPc' = "read" /\ locked' # None
               \/ /\ fuPc \in {"clear", "write"}
                  /\ locked # None
                  /\ DOMAIN md' = DOMAIN md
                  /\ \A k \in DOMAIN md : k # locked[1] => md'[k] = md[k]
          /\ sockets' # sockets => ws' # ws
          /\ base' = base
          /\ index' = index]_vars

\* C13 witness: while a batch holds the handle of another key, the server
\* runs, a request for a stored document gets 200 and a request for an
\* absent key gets 404
C13_Witness ==
    /\ serve = "running"
    /\ fuPc = "write"
    /\ locked = Some(<<"b">>)
    /\ CanRead(<<"a">>)
    /\ CanRead(<<"c">>)
    /\ handle_md(<<"/", "a", ".md">>) = <<200, html(Render(<<"x", "x">>))>>
    /\ handle_md(<<"/", "c", ".md">>) = <<404, not_found>>

\* C14: reconfiguration is all-or-nothing.  A set-path command whose path
\* does not exist leaves the base and the watcher's pathset as they were; a
\* set-index command replaces the index only by the relative form of a path
\* under the current base, and changes nothing else; the base and the
\* pathset change only in the two stores of a set-path command.
C14_AllOrNothing ==
    [][/\ (ci # None /\ ~ci[3]) => (base' = base /\ watched' = watched)
       /\ index' # index =>
             /\ strip_prefix(indexFrom', base) # None
             /\ index' = to_str(strip_prefix(indexFrom', base)[1])
             /\ base' = base /\ watched' = watched
       /\ (base' # base \/ watched' # watched) =>
             (ci # None /\ ci[1] \in {"pathset", "store"} /\ index' = index)]_vars

\* C15: in every reachable state the index names a path under the current
\* base: the path it was derived from has the base as a prefix and the
\* index is its relative form.
C15_IndexUnderRoot ==
    /\ strip_prefix(indexFrom, base) # None
    /\ index = to_str(strip_prefix(indexFrom, base)[1])

\* C16: the root swap is atomic with the watch set: in every state in which
\* an invocation of file_update is running, the watcher's pathset is exactly
\* the base.
C16_WatchIsRoot ==
    fuPc # "idle" => watched = {base}

\* the stores initialize_md can build over base b: one for every set of
\* regular files under b and every text of each
Scans(b) ==
    {initialize_md(b, files) :
        files \in UNION {[present -> Texts] : present \in
                            SUBSET {p \in AllFiles : strip_prefix(p, b) # None}}}

\* C17: a successful change of the base rebuilds the store: on the step in
\* which set-path stores a new base, the store becomes what a fresh scan of
\* the new base gives, with no entry left from the old base.
C17_StoreRebuilt ==
    [][base' # base => md' \in Scans(base')]_vars

\* C18: batch coalescing.  When an invocation of file_update has returned,
\* every collected file (a regular file under the base with one event or
\* more in the batch) other than one whose own read failed has been handed to
\* write_md_from_file exactly once and its entry has been re-rendered, and
\* update.notify_waiters() has been called at most once.
C18_ReadOnce ==
    batch.returned =>
        /\ \A p \in DOMAIN batch.reads :
              batch.failed # update_key(p, base) =>
                  /\ batch.reads[p] = 1
                  /\ update_key(p, base)[1] \in batch.applied
        /\ batch.fired <= 1

\* C19: a batch that carries a stop signal (Interrupt in the model) is
\* handled as a graceful-stop request only, whatever events it also carries:
\* the invocation requests the stop of the watcher and returns at once with
\* nothing collected, nothing applied and no ChangeSignal fired, and the step
\* leaves the store, its handles, the websocket tasks and the sockets
\* counter as they were.
C19_StopOnly ==
    /\ [](batch.interrupt =>
            /\ wxDone
            /\ batch.returned
            /\ fuPc = "idle"
            /\ todo = {}
            /\ batch.eligible = {}
            /\ batch.applied = {}
            /\ batch.fired = 0)
    /\ [][(~batch.interrupt /\ batch'.interrupt) =>
             /\ md' = md
             /\ committed' = committed
             /\ locked' = locked
             /\ ws' = ws
             /\ sockets' = sockets]_vars

\* C19 witness: a batch with Interrupt has been handled while a listener was
\* waiting and the store held a document
C19_Witness ==
    /\ batch.interrupt
    /\ wxDone
    /\ DOMAIN md # {}
    /\ sockets = 1
    /\ ws[1].pc = "waiting"

\* the values the store takes with one file of one block under the base
WsStores ==
    UNION {[ks -> {EmptyString, Render(<<"x">>)}] : ks \in SUBSET {<<"a">>}}

\* C20: the shutdown of the server stops the watcher: from a state in which
\* the shutdown has been initiated (console quit, Ctrl-C or SIGTERM; the
\* watcher's own end delivers no batch any more) and no invocation of
\* file_update is running, the store stays as it is for ever.
C20_ShutdownStopsWatcher ==
    \A m \in WsStores :
        []((serve = "stopped" /\ fuPc = "idle" /\ md = m) => [](md = m))

\* C21: the file I/O of the invalidation pipeline does not delay HTTP reads:
\* while file_update is reading a source file from disk, no handle of an
\* entry is held and get_md can run for every key.
C21_ReadsNotBlocked ==
    fuPc = "read" => (locked = None /\ \A url \in Urls : CanRead(clean_url(url)))

\* C22: the store never shrinks under live operation.  In every step of a
\* batch or of an HTTP read every key of the store stays a key, and the
\* document of a key changes only while file_update, having read the file,
\* rewrites it through the held handle: the entry of a file that is gone (its
\* event is filtered out, or its read fails) keeps its last document.
C22_NeverShrinks ==
    [][\A k \in DOMAIN md :
          /\ k \in DOMAIN md'
          /\ md'[k] # md[k] =>
                (locked = Some(k) /\ fuPc \in {"clear", "write"})]_vars

\* C22 witness: the file of a had been deleted when a batch came to read it;
\* the batch has returned and the entry of a still holds its two-block
\* document
C22_Witness ==
    /\ batch.returned
    /\ batch.failed = Some(<<"a">>)
    /\ <<"a">> \in DOMAIN md
    /\ md[<<"a">>] = Render(<<"x", "x">>)
    /\ committed = md

\* C23: single-file mode keeps one key: with a regular file as the base,
\* every key file_update collects for a batch is the key under which
\* initialize_md stored the file at startup.
C23_SingleFileKey ==
    batch.eligible \subseteq
        DOMAIN initialize_md(base, [p \in {base} |-> <<"x">>])

\* C24: incremental updates agree with a fresh scan: with a directory base
\* that does not change, every key of the store is a key the startup scan
\* gives some regular file under the base, so file_update creates entries
\* only for files initialize_md would index, and under the same key.
C24_ScanKeys ==
    \A k \in DOMAIN md : \E p \in AllFiles : init_key(p, base) = Some(k)

\* C25: a batch uses one root: all the keys one invocation of file_update
\* computes are derived against a single value of Api.base, also when a
\* set path command runs next to the batch.
C25_OneRoot ==
    Cardinality(batch.roots) <= 1

\* C26: no counted listener misses a change: a firing of the ChangeSignal
\* completes the update future of every connection that Api.sockets counts
\* and that has not completed its select, those between the fetch_add and
\* the start of the wait included.
C26_NoLostWake ==
    [][Fires =>
          \A l \in Listeners :
              ws[l].pc \in {"attached", "waiting"} => ws'[l].updN]_vars

\* C27: shutdown terminates the process: once the shutdown has been
\* initiated by any trigger, read_console returns and run() eventually
\* returns, with no further input from the operator.
C27_ShutdownReturns ==
    (serve = "stopped") ~> (mainPc = "returned")

=============================================================================
